---- MODULE Spec2Model ----
(***************************************************************************)
(* A model of the middleware package (middleware.go): the status-capturing *)
(* response writer and the named registry of middleware constructors.      *)
(***************************************************************************)
EXTENDS Integers, Sequences, FiniteSets, TLC

\* ------------------------------------------------------------------ bounds

\* Longest sequence of calls a caller makes on one statusResponseWriter.
MaxCalls == 3

\* Most calls the innermost handler of a chain makes on its response writer.
MaxOps == 2

\* ----------------------------------------------------------- input domains

\* http.StatusOK
StatusOK == 200

\* The status NewPanicMiddleware writes (line 75).
StatusInternalServerError == 500

\* Status codes a caller passes to WriteHeader.  0 is the zero value of the
\* status field; 403 and 409 are the codes of TestLoggingResponseWriter.
Codes == {0, StatusOK, 403, 409}

\* Byte strings a caller passes to Write ("Hi" and "!").
Data == {<<72, 105>>, <<33>>}

\* The header collection owned by the wrapped sink.
SinkHeader == "wrapped.Header"

\* Goroutines that use the registry; goroutine 1 is the main goroutine,
\* which runs init() before any other goroutine exists.
NumProcs == 2

Procs == 1..NumProcs

\* The nil constructor (the zero value of func(http.Handler) http.Handler).
Nil == "nil"

\* An init() that registers the stdout logger under the panic handler's key.
BootKeys_dup == <<"middleware.Panic", "middleware.Panic", "middleware.LoggingStdErr">>

\* The keys and constructors init() registers.
BootKeys == <<"middleware.Panic", "middleware.LoggingStdOut", "middleware.LoggingStdErr">>

BootCtors == <<"NewPanicMiddleware", "LoggingStdOut", "LoggingStdErr">>

\* Keys the callers pass: the key of TestRegisterGetMustGet and the empty
\* string.  Either is unknown until a caller registers it.
ClientKeys == {"nillHandler", ""}

\* Constructors the callers pass: f and o of TestRegisterGetMustGet, and nil.
ClientCtors == {"f", "o", Nil}

VARIABLES
    status,     \* statusResponseWriter.status
    wpc,        \* position of the caller inside a statusResponseWriter method
    calls,      \* the calls made on the statusResponseWriter so far, in order
    wret,       \* what the last completed call returned
    sinkCalls,  \* statusResponseWriter.wrapped: the calls the sink received
    registry,   \* the registry map: a function from the keys present
    lock,       \* registryLock: w = the goroutine holding the writer side
                \* (0 = none), readers = the number of read locks held
    initpc,     \* position of the main goroutine inside init()
    pc,         \* per goroutine: position inside Register, Get or MustGet
    arg,        \* per goroutine: the call it is executing or executed last
    local,      \* per goroutine: the locals f, ok and whether it is panicking
    ret,        \* per goroutine: the outcome of its last completed call
    req,        \* the request being served and the chain serving it
    fpc,        \* per frame of the chain: position inside the handler
    hdepth,     \* the frame that is executing (0 = the caller of the chain)
    hpanic,     \* the panic in flight: "none", "value" (non-nil) or "nil"
    hst,        \* per logging layer: the status field of its statusResponseWriter
    hsink,      \* the calls made on the caller's response sink, with the frame
                \* that made each
    outLog,     \* the writes made to the logging layers' output sink
    hinvoked,   \* per frame: how many times it was invoked
    hip         \* the innermost handler's next call

wvars == <<status, wpc, calls, wret, sinkCalls>>

rvars == <<registry, lock, initpc, pc, arg, local, ret>>

hvars == <<req, fpc, hdepth, hpanic, hst, hsink, outLog, hinvoked, hip>>

vars == <<status, wpc, calls, wret, sinkCalls, registry, lock, initpc, pc, arg, local, ret,
          req, fpc, hdepth, hpanic, hst, hsink, outLog, hinvoked, hip>>

NoRet == [kind |-> "none"]

\* ------------------------------------------------- statusResponseWriter

\* The call being executed (the last one invoked).
CurCall == calls[Len(calls)]

\* A setStatus that lacks the l.status == 0 test: the last write wins.
setStatus_lastWins(cur, statusValue) == statusValue

\* setStatus: the value of l.status after setStatus(statusValue).
setStatus(cur, statusValue) == IF cur = 0 THEN statusValue ELSE cur

\* GetStatus: the value returned for a status field holding cur.
GetStatus(cur) == IF cur = 0 THEN StatusOK ELSE cur

\* The wrapped sink of the tests (a response recorder): Write appends to the
\* body and reports the whole slice written, with no error.
SinkWriteResult(data) == [kind |-> "write", n |-> Len(data), err |-> "nil"]

RECURSIVE SinkBody(_)
SinkBody(received) ==
    IF received = <<>> THEN <<>>
    ELSE LET rest == SinkBody(SubSeq(received, 1, Len(received) - 1))
             last == received[Len(received)]
         IN  IF last.op = "Write" THEN rest \o last.data ELSE rest

\* A caller invokes Write(data): control enters the method at line 26.
CallWrite ==
    /\ wpc = "idle"
    /\ Len(calls) < MaxCalls
    /\ \E data \in Data :
          calls' = Append(calls, [op |-> "Write", data |-> data])
    /\ wpc' = "Write_26"
    /\ wret' = NoRet
    /\ UNCHANGED <<status, sinkCalls>>

\* A Write that delegates without recording the implicit status.
Write_26_noStatus ==
    /\ wpc = "Write_26"
    /\ wpc' = "Write_27"
    /\ UNCHANGED <<status, calls, wret, sinkCalls>>

\* Write, line 26: l.setStatus(http.StatusOK)
Write_26 ==
    /\ wpc = "Write_26"
    /\ status' = setStatus(status, StatusOK)
    /\ wpc' = "Write_27"
    /\ UNCHANGED <<calls, wret, sinkCalls>>

\* Write, line 27: return l.wrapped.Write(data)
Write_27 ==
    /\ wpc = "Write_27"
    /\ sinkCalls' = Append(sinkCalls, [op |-> "Write", data |-> CurCall.data,
                                       res |-> SinkWriteResult(CurCall.data)])
    /\ wret' = SinkWriteResult(CurCall.data)
    /\ wpc' = "idle"
    /\ UNCHANGED <<status, calls>>

\* A caller invokes WriteHeader(statusValue): control enters at line 31.
CallWriteHeader ==
    /\ wpc = "idle"
    /\ Len(calls) < MaxCalls
    /\ \E code \in Codes :
          calls' = Append(calls, [op |-> "WriteHeader", code |-> code])
    /\ wpc' = "WriteHeader_31"
    /\ wret' = NoRet
    /\ UNCHANGED <<status, sinkCalls>>

\* WriteHeader, line 31: l.setStatus(statusValue)
WriteHeader_31 ==
    /\ wpc = "WriteHeader_31"
    /\ status' = setStatus(status, CurCall.code)
    /\ wpc' = "WriteHeader_32"
    /\ UNCHANGED <<calls, wret, sinkCalls>>

\* A WriteHeader that forwards to the sink only while the sink has received
\* no WriteHeader yet.
WriteHeader_32_firstOnly ==
    /\ wpc = "WriteHeader_32"
    /\ sinkCalls' = IF \E i \in 1..Len(sinkCalls) : sinkCalls[i].op = "WriteHeader"
                       THEN sinkCalls
                       ELSE Append(sinkCalls, [op |-> "WriteHeader", code |-> CurCall.code])
    /\ wret' = [kind |-> "void"]
    /\ wpc' = "idle"
    /\ UNCHANGED <<status, calls>>

\* WriteHeader, line 32: l.wrapped.WriteHeader(statusValue)
WriteHeader_32 ==
    /\ wpc = "WriteHeader_32"
    /\ sinkCalls' = Append(sinkCalls, [op |-> "WriteHeader", code |-> CurCall.code])
    /\ wret' = [kind |-> "void"]
    /\ wpc' = "idle"
    /\ UNCHANGED <<status, calls>>

\* Header(): return l.wrapped.Header()
Header ==
    /\ wpc = "idle"
    /\ Len(calls) < MaxCalls
    /\ calls' = Append(calls, [op |-> "Header"])
    /\ wret' = [kind |-> "header", header |-> SinkHeader]
    /\ UNCHANGED <<status, wpc, sinkCalls>>

\* A GetStatus that stores the default it reports into l.status.
CallGetStatus_caching ==
    /\ wpc = "idle"
    /\ Len(calls) < MaxCalls
    /\ calls' = Append(calls, [op |-> "GetStatus"])
    /\ wret' = [kind |-> "status", code |-> GetStatus(status)]
    /\ status' = GetStatus(status)
    /\ UNCHANGED <<wpc, sinkCalls>>

\* GetStatus(): lines 41-46, one read of l.status.
CallGetStatus ==
    /\ wpc = "idle"
    /\ Len(calls) < MaxCalls
    /\ calls' = Append(calls, [op |-> "GetStatus"])
    /\ wret' = [kind |-> "status", code |-> GetStatus(status)]
    /\ UNCHANGED <<status, wpc, sinkCalls>>

\* A fresh writer: &statusResponseWriter{wrapped: record}
WInit ==
    /\ status = 0
    /\ wpc = "idle"
    /\ calls = <<>>
    /\ wret = NoRet
    /\ sinkCalls = <<>>

WNext ==
    \/ CallWrite /\ UNCHANGED <<rvars, hvars>>
    \/ Write_26 /\ UNCHANGED <<rvars, hvars>>
    \/ Write_27 /\ UNCHANGED <<rvars, hvars>>
    \/ CallWriteHeader /\ UNCHANGED <<rvars, hvars>>
    \/ WriteHeader_31 /\ UNCHANGED <<rvars, hvars>>
    \/ WriteHeader_32 /\ UNCHANGED <<rvars, hvars>>
    \/ Header /\ UNCHANGED <<rvars, hvars>>
    \/ CallGetStatus /\ UNCHANGED <<rvars, hvars>>

\* ------------------------------------------------------------- registry

NoArg == [op |-> "none", key |-> "", f |-> Nil]

NoLocal == [f |-> Nil, ok |-> FALSE, panicking |-> FALSE]

NoOutcome == [out |-> "none", f |-> Nil, ok |-> FALSE]

\* f, ok := registry[key]: the value stored (nil when there is none) and
\* whether the key is present.
Lookup(reg, key) ==
    [f |-> IF key \in DOMAIN reg THEN reg[key] ELSE Nil, ok |-> key \in DOMAIN reg]

\* registry[key] = f
Store(reg, key, f) ==
    [k \in DOMAIN reg \cup {key} |-> IF k = key THEN f ELSE reg[k]]

\* Goroutine p enters op(key, f) at its first line.
Invoke(p, op, key, f, first) ==
    /\ pc[p] = "idle"
    /\ arg' = [arg EXCEPT ![p] = [op |-> op, key |-> key, f |-> f]]
    /\ pc' = [pc EXCEPT ![p] = first]
    /\ local' = [local EXCEPT ![p] = NoLocal]
    /\ ret' = [ret EXCEPT ![p] = NoOutcome]
    /\ UNCHANGED <<registry, lock>>

\* Goroutine p leaves its call with the given outcome.
Leave(p, outcome) ==
    /\ pc' = [pc EXCEPT ![p] = "idle"]
    /\ local' = [local EXCEPT ![p] = NoLocal]
    /\ ret' = [ret EXCEPT ![p] = outcome]

\* init(): the i-th Register call, made once the one before it has returned
\* (a panic in init ends the program).
InitRegister(line, next, i) ==
    /\ initpc = line
    /\ ret[1].out # "panic"
    /\ Invoke(1, "Register", BootKeys[i], BootCtors[i], "Register_97")
    /\ initpc' = next

\* init, line 84: Register("middleware.Panic", NewPanicMiddleware)
init_84 == InitRegister("init_84", "init_85", 1)

\* init, line 85: Register("middleware.LoggingStdOut", ...)
init_85 == InitRegister("init_85", "init_88", 2)

\* init, line 88: Register("middleware.LoggingStdErr", ...)
init_88 == InitRegister("init_88", "init_91", 3)

\* init, line 91: init returns and the program's goroutines may start.
init_91 ==
    /\ initpc = "init_91"
    /\ pc[1] = "idle"
    /\ ret[1].out # "panic"
    /\ initpc' = "done"
    /\ UNCHANGED <<registry, lock, pc, arg, local, ret>>

\* A goroutine calls Register(key, f).
CallRegister(p) ==
    /\ initpc = "done"
    /\ \E key \in ClientKeys, f \in ClientCtors :
          Invoke(p, "Register", key, f, "Register_97")
    /\ UNCHANGED initpc

\* A goroutine calls Get(key).
CallGet(p) ==
    /\ initpc = "done"
    /\ \E key \in ClientKeys : Invoke(p, "Get", key, Nil, "Get_113")
    /\ UNCHANGED initpc

\* A goroutine calls MustGet(key).
CallMustGet(p) ==
    /\ initpc = "done"
    /\ \E key \in ClientKeys : Invoke(p, "MustGet", key, Nil, "MustGet_121")
    /\ UNCHANGED initpc

\* A Register without the nil test: nil is locked for and stored like any f.
Register_97_noNilCheck(p) ==
    /\ pc[p] = "Register_97"
    /\ pc' = [pc EXCEPT ![p] = "Register_100"]
    /\ UNCHANGED <<registry, lock, initpc, arg, local, ret>>

\* Register, lines 97-99: if f == nil { return }
Register_97(p) ==
    /\ pc[p] = "Register_97"
    /\ IF arg[p].f = Nil
          THEN Leave(p, [out |-> "return", f |-> Nil, ok |-> FALSE])
          ELSE /\ pc' = [pc EXCEPT ![p] = "Register_100"]
               /\ UNCHANGED <<local, ret>>
    /\ UNCHANGED <<registry, lock, initpc, arg>>

\* A Lock that does not keep a second writer out.
Register_100_noExclusion(p) ==
    /\ pc[p] = "Register_100"
    /\ lock' = [lock EXCEPT !.w = p]
    /\ pc' = [pc EXCEPT ![p] = "Register_100w"]
    /\ UNCHANGED <<registry, initpc, arg, local, ret>>

\* Register, line 100: registryLock.Lock(), first half: take the writer side,
\* which keeps other writers and new readers out.
Register_100(p) ==
    /\ pc[p] = "Register_100"
    /\ lock.w = 0
    /\ lock' = [lock EXCEPT !.w = p]
    /\ pc' = [pc EXCEPT ![p] = "Register_100w"]
    /\ UNCHANGED <<registry, initpc, arg, local, ret>>

\* Register, line 100: registryLock.Lock(), second half: wait until the
\* readers that hold the lock have released it.
Register_100w(p) ==
    /\ pc[p] = "Register_100w"
    /\ lock.readers = 0
    /\ pc' = [pc EXCEPT ![p] = "Register_103"]
    /\ UNCHANGED <<registry, lock, initpc, arg, local, ret>>

\* A Register whose panic skips the deferred Unlock: the lock stays held.
Register_103_lockKept(p) ==
    /\ pc[p] = "Register_103"
    /\ IF Lookup(registry, arg[p].key).ok
          THEN Leave(p, [out |-> "panic", f |-> Nil, ok |-> FALSE])
          ELSE /\ pc' = [pc EXCEPT ![p] = "Register_107"]
               /\ UNCHANGED <<local, ret>>
    /\ UNCHANGED <<registry, lock, initpc, arg>>

\* A Register without the duplicate test: it stores over an existing entry.
Register_103_noCheck(p) ==
    /\ pc[p] = "Register_103"
    /\ pc' = [pc EXCEPT ![p] = "Register_107"]
    /\ UNCHANGED <<registry, lock, initpc, arg, local, ret>>

\* A Register that accepts a key again when the constructor is the one stored.
Register_103_sameValueOK(p) ==
    /\ pc[p] = "Register_103"
    /\ IF arg[p].key \in DOMAIN registry /\ registry[arg[p].key] # arg[p].f
          THEN /\ local' = [local EXCEPT ![p].panicking = TRUE]
               /\ pc' = [pc EXCEPT ![p] = "Register_101"]
          ELSE /\ pc' = [pc EXCEPT ![p] = "Register_107"]
               /\ UNCHANGED local
    /\ UNCHANGED <<registry, lock, initpc, arg, ret>>

\* Register, lines 103-105: if _, ok := registry[key]; ok { panic(...) }
\* The panic runs the deferred Unlock of line 101.
Register_103(p) ==
    /\ pc[p] = "Register_103"
    /\ IF Lookup(registry, arg[p].key).ok
          THEN /\ local' = [local EXCEPT ![p].panicking = TRUE]
               /\ pc' = [pc EXCEPT ![p] = "Register_101"]
          ELSE /\ pc' = [pc EXCEPT ![p] = "Register_107"]
               /\ UNCHANGED local
    /\ UNCHANGED <<registry, lock, initpc, arg, ret>>

\* Register, line 107: registry[key] = f
Register_107(p) ==
    /\ pc[p] = "Register_107"
    /\ registry' = Store(registry, arg[p].key, arg[p].f)
    /\ pc' = [pc EXCEPT ![p] = "Register_101"]
    /\ UNCHANGED <<lock, initpc, arg, local, ret>>

\* Register, line 101: the deferred registryLock.Unlock(), then the call
\* returns or goes on panicking.
Register_101(p) ==
    /\ pc[p] = "Register_101"
    /\ lock' = [lock EXCEPT !.w = 0]
    /\ Leave(p, [out |-> IF local[p].panicking THEN "panic" ELSE "return",
                 f |-> Nil, ok |-> FALSE])
    /\ UNCHANGED <<registry, initpc, arg>>

\* An RLock that also waits for the other readers, as a plain mutex would.
Get_113_exclusive(p) ==
    /\ pc[p] = "Get_113"
    /\ lock.w = 0
    /\ lock.readers = 0
    /\ lock' = [lock EXCEPT !.readers = @ + 1]
    /\ pc' = [pc EXCEPT ![p] = "Get_116"]
    /\ UNCHANGED <<registry, initpc, arg, local, ret>>

\* Get, line 113: registryLock.RLock(), granted while no writer holds or
\* waits for the lock.
Get_113(p) ==
    /\ pc[p] = "Get_113"
    /\ lock.w = 0
    /\ lock' = [lock EXCEPT !.readers = @ + 1]
    /\ pc' = [pc EXCEPT ![p] = "Get_116"]
    /\ UNCHANGED <<registry, initpc, arg, local, ret>>

\* A Get that reports every key as found.
Get_116_foundAlways(p) ==
    /\ pc[p] = "Get_116"
    /\ local' = [local EXCEPT ![p] =
                    [f |-> Lookup(registry, arg[p].key).f, ok |-> TRUE,
                     panicking |-> FALSE]]
    /\ pc' = [pc EXCEPT ![p] = "Get_114"]
    /\ UNCHANGED <<registry, lock, initpc, arg, ret>>

\* Get, line 116: f, ok := registry[key]
Get_116(p) ==
    /\ pc[p] = "Get_116"
    /\ local' = [local EXCEPT ![p] =
                    [f |-> Lookup(registry, arg[p].key).f,
                     ok |-> Lookup(registry, arg[p].key).ok,
                     panicking |-> FALSE]]
    /\ pc' = [pc EXCEPT ![p] = "Get_114"]
    /\ UNCHANGED <<registry, lock, initpc, arg, ret>>

\* Get, lines 117 and 114: return f, ok after the deferred RUnlock.
Get_114(p) ==
    /\ pc[p] = "Get_114"
    /\ lock' = [lock EXCEPT !.readers = @ - 1]
    /\ Leave(p, [out |-> "return", f |-> local[p].f, ok |-> local[p].ok])
    /\ UNCHANGED <<registry, initpc, arg>>

\* MustGet, line 121: registryLock.RLock()
MustGet_121(p) ==
    /\ pc[p] = "MustGet_121"
    /\ lock.w = 0
    /\ lock' = [lock EXCEPT !.readers = @ + 1]
    /\ pc' = [pc EXCEPT ![p] = "MustGet_124"]
    /\ UNCHANGED <<registry, initpc, arg, local, ret>>

\* A MustGet without the nil test: it returns whatever the map yields.
MustGet_124_noPanic(p) ==
    /\ pc[p] = "MustGet_124"
    /\ local' = [local EXCEPT ![p] =
                    [f |-> Lookup(registry, arg[p].key).f, ok |-> FALSE,
                     panicking |-> FALSE]]
    /\ pc' = [pc EXCEPT ![p] = "MustGet_122"]
    /\ UNCHANGED <<registry, lock, initpc, arg, ret>>

\* MustGet, lines 124-127: f := registry[key]; if f == nil { panic(...) }
MustGet_124(p) ==
    /\ pc[p] = "MustGet_124"
    /\ local' = [local EXCEPT ![p] =
                    [f |-> Lookup(registry, arg[p].key).f, ok |-> FALSE,
                     panicking |-> Lookup(registry, arg[p].key).f = Nil]]
    /\ pc' = [pc EXCEPT ![p] = "MustGet_122"]
    /\ UNCHANGED <<registry, lock, initpc, arg, ret>>

\* MustGet, lines 128 and 122: the deferred RUnlock, then the call returns f
\* or goes on panicking.
MustGet_122(p) ==
    /\ pc[p] = "MustGet_122"
    /\ lock' = [lock EXCEPT !.readers = @ - 1]
    /\ Leave(p, IF local[p].panicking
                   THEN [out |-> "panic", f |-> Nil, ok |-> FALSE]
                   ELSE [out |-> "return", f |-> local[p].f, ok |-> FALSE])
    /\ UNCHANGED <<registry, initpc, arg>>

\* Program start: the registry map of line 13 is empty, the lock of line 14
\* is free and the main goroutine is about to run init().
RInit ==
    /\ registry = [k \in {} |-> Nil]
    /\ lock = [w |-> 0, readers |-> 0]
    /\ initpc = "init_84"
    /\ pc = [p \in Procs |-> "idle"]
    /\ arg = [p \in Procs |-> NoArg]
    /\ local = [p \in Procs |-> NoLocal]
    /\ ret = [p \in Procs |-> NoOutcome]

RNext ==
    \/ init_84 /\ UNCHANGED <<wvars, hvars>>
    \/ init_85 /\ UNCHANGED <<wvars, hvars>>
    \/ init_88 /\ UNCHANGED <<wvars, hvars>>
    \/ init_91 /\ UNCHANGED <<wvars, hvars>>
    \/ \E p \in Procs : CallRegister(p) /\ UNCHANGED <<wvars, hvars>>
    \/ \E p \in Procs : CallGet(p) /\ UNCHANGED <<wvars, hvars>>
    \/ \E p \in Procs : CallMustGet(p) /\ UNCHANGED <<wvars, hvars>>
    \/ \E p \in Procs : Register_97(p) /\ UNCHANGED <<wvars, hvars>>
    \/ \E p \in Procs : Register_100(p) /\ UNCHANGED <<wvars, hvars>>
    \/ \E p \in Procs : Register_100w(p) /\ UNCHANGED <<wvars, hvars>>
    \/ \E p \in Procs : Register_103(p) /\ UNCHANGED <<wvars, hvars>>
    \/ \E p \in Procs : Register_107(p) /\ UNCHANGED <<wvars, hvars>>
    \/ \E p \in Procs : Register_101(p) /\ UNCHANGED <<wvars, hvars>>
    \/ \E p \in Procs : Get_113(p) /\ UNCHANGED <<wvars, hvars>>
    \/ \E p \in Procs : Get_116(p) /\ UNCHANGED <<wvars, hvars>>
    \/ \E p \in Procs : Get_114(p) /\ UNCHANGED <<wvars, hvars>>
    \/ \E p \in Procs : MustGet_121(p) /\ UNCHANGED <<wvars, hvars>>
    \/ \E p \in Procs : MustGet_124(p) /\ UNCHANGED <<wvars, hvars>>
    \/ \E p \in Procs : MustGet_122(p) /\ UNCHANGED <<wvars, hvars>>

\* ------------------------------------------------------------ middleware

\* The finite sequences over S of length at most n.
SeqsUpTo(S, n) == UNION {[1..k -> S] : k \in 0..n}

\* What the innermost handler does with its response writer before it ends:
\* WriteHeader(code) or Write(data); the field a call does not use is empty.
HandlerOps ==
    {[op |-> "WriteHeader", code |-> c, data |-> <<>>] : c \in Codes}
        \cup {[op |-> "Write", code |-> 0, data |-> d] : d \in Data}

\* A request served through a chain of middleware: the layers from the
\* outermost in ("P" = NewPanicMiddleware, "L" = NewLoggingMiddleware), the
\* innermost handler's calls on its writer and how it ends (it returns,
\* panics with a value as doPanic does, or calls panic(nil)), the caller's
\* response sink (a recorder, or one whose methods panic, such as the nil
\* writer of doPanic(nil, nil)), the request's URL path, and whether the
\* build's recover() returns nil for panic(nil) (Go before 1.21, or
\* GODEBUG=panicnil=1).
Requests ==
    [chain : {<<"P">>, <<"L">>, <<"L", "P">>, <<"P", "L">>},
     ops : SeqsUpTo(HandlerOps, MaxOps),
     end : {"return", "panic", "panicNil"},
     sink : {"recorder", "failing"},
     path : {"/about/", "/"},
     recoverNil : BOOLEAN]

\* The frame of the innermost handler; frames 1..Len(req.chain) are the
\* middleware layers.
Innermost == Len(req.chain) + 1

\* Where control enters frame i.
Entry(i) ==
    IF i = Innermost THEN "H_run"
    ELSE IF req.chain[i] = "L" THEN "L_58" ELSE "P_73"

\* The status a call on a statusResponseWriter hands to setStatus: Write
\* passes http.StatusOK (line 26), WriteHeader its argument (line 31).
StatusOf(o) == IF o.op = "Write" THEN StatusOK ELSE o.code

\* Frame i calls o on the writer it was given: every statusResponseWriter
\* of a logging layer outside frame i records the status and delegates, and
\* the call reaches the caller's sink.
Deliver(i, o) ==
    /\ hst' = [j \in DOMAIN hst |->
                  IF j < i /\ req.chain[j] = "L"
                     THEN setStatus(hst[j], StatusOf(o))
                     ELSE hst[j]]
    /\ hsink' = Append(hsink, [op |-> o.op, code |-> o.code, data |-> o.data, by |-> i])

\* Frame i calls chain.ServeHTTP: control enters frame i + 1.
CallInner(i, waiting) ==
    /\ fpc' = [fpc EXCEPT ![i] = waiting, ![i + 1] = Entry(i + 1)]
    /\ hinvoked' = [hinvoked EXCEPT ![i + 1] = @ + 1]
    /\ hdepth' = i + 1

\* Frame i ends, returning or panicking, and control is back in frame i - 1
\* (the caller of the chain for i = 1).
Exit(i, how) ==
    /\ fpc' = [fpc EXCEPT ![i] = how]
    /\ hdepth' = i - 1

\* The server (or a test) calls the outermost handler of the chain.
HServe ==
    /\ hdepth = 0
    /\ fpc[1] = "notcalled"
    /\ fpc' = [fpc EXCEPT ![1] = Entry(1)]
    /\ hinvoked' = [hinvoked EXCEPT ![1] = @ + 1]
    /\ hdepth' = 1
    /\ UNCHANGED <<req, hpanic, hst, hsink, outLog, hip>>

\* NewLoggingMiddleware, lines 58-59: statusWriter := &statusResponseWriter{wrapped: w}
L_58(i) ==
    /\ hdepth = i
    /\ fpc[i] = "L_58"
    /\ hst' = [hst EXCEPT ![i] = 0]
    /\ fpc' = [fpc EXCEPT ![i] = "L_60"]
    /\ UNCHANGED <<req, hdepth, hpanic, hsink, outLog, hinvoked, hip>>

\* NewLoggingMiddleware, line 60: chain.ServeHTTP(statusWriter, r)
L_60(i) ==
    /\ hdepth = i
    /\ fpc[i] = "L_60"
    /\ CallInner(i, "L_60r")
    /\ UNCHANGED <<req, hpanic, hst, hsink, outLog, hip>>

\* A logging layer that writes the status field itself instead of GetStatus().
L_62_rawStatus(i) ==
    /\ hdepth = i
    /\ fpc[i] = "L_60r"
    /\ hpanic = "none"
    /\ outLog' = Append(outLog, [by |-> i, code |-> hst[i], path |-> req.path])
    /\ Exit(i, "returned")
    /\ UNCHANGED <<req, hpanic, hst, hsink, hinvoked, hip>>

\* NewLoggingMiddleware, lines 61-64, reached when the inner handler has
\* returned: code := statusWriter.GetStatus(); out.Write("<code> <path> <duration>\n")
L_62(i) ==
    /\ hdepth = i
    /\ fpc[i] = "L_60r"
    /\ hpanic = "none"
    /\ outLog' = Append(outLog, [by |-> i, code |-> GetStatus(hst[i]), path |-> req.path])
    /\ Exit(i, "returned")
    /\ UNCHANGED <<req, hpanic, hst, hsink, hinvoked, hip>>

\* A logging layer that writes its line from a deferred function, so also
\* when the inner handler panicked.
L_unwind_logs(i) ==
    /\ hdepth = i
    /\ fpc[i] = "L_60r"
    /\ hpanic # "none"
    /\ outLog' = Append(outLog, [by |-> i, code |-> GetStatus(hst[i]), path |-> req.path])
    /\ Exit(i, "panicked")
    /\ UNCHANGED <<req, hpanic, hst, hsink, hinvoked, hip>>

\* NewLoggingMiddleware, line 60 when the inner handler panics: the function
\* has no deferred call, so the panic unwinds it and goes on to its caller.
L_unwind(i) ==
    /\ hdepth = i
    /\ fpc[i] = "L_60r"
    /\ hpanic # "none"
    /\ Exit(i, "panicked")
    /\ UNCHANGED <<req, hpanic, hst, hsink, outLog, hinvoked, hip>>

\* NewPanicMiddleware, lines 73-77: the defer statement.
P_73(i) ==
    /\ hdepth = i
    /\ fpc[i] = "P_73"
    /\ fpc' = [fpc EXCEPT ![i] = "P_78"]
    /\ UNCHANGED <<req, hdepth, hpanic, hst, hsink, outLog, hinvoked, hip>>

\* NewPanicMiddleware, line 78: chain.ServeHTTP(w, r)
P_78(i) ==
    /\ hdepth = i
    /\ fpc[i] = "P_78"
    /\ CallInner(i, "P_78r")
    /\ UNCHANGED <<req, hpanic, hst, hsink, outLog, hip>>

\* NewPanicMiddleware, line 74, the deferred function, run when the inner
\* handler has returned or panicked: if r := recover(); r != nil.
\* recover() ends the panic; it returns the panic's value, which is nil for
\* panic(nil) on a build whose recover() reports it so.
P_74(i) ==
    /\ hdepth = i
    /\ fpc[i] = "P_78r"
    /\ hpanic' = "none"
    /\ IF hpanic = "value" \/ (hpanic = "nil" /\ ~req.recoverNil)
          THEN /\ fpc' = [fpc EXCEPT ![i] = "P_75"]
               /\ UNCHANGED hdepth
          ELSE Exit(i, "returned")
    /\ UNCHANGED <<req, hst, hsink, outLog, hinvoked, hip>>

\* NewPanicMiddleware, line 75: w.WriteHeader(500), inside the deferred
\* function; a panic of the sink leaves the deferred function and the handler.
P_75(i) ==
    /\ hdepth = i
    /\ fpc[i] = "P_75"
    /\ Deliver(i, [op |-> "WriteHeader", code |-> StatusInternalServerError, data |-> <<>>])
    /\ IF req.sink = "failing"
          THEN hpanic' = "value" /\ Exit(i, "panicked")
          ELSE UNCHANGED hpanic /\ Exit(i, "returned")
    /\ UNCHANGED <<req, outLog, hinvoked, hip>>

\* The innermost handler makes its next call on its writer.
H_op ==
    /\ hdepth = Innermost
    /\ fpc[Innermost] = "H_run"
    /\ hip <= Len(req.ops)
    /\ Deliver(Innermost, req.ops[hip])
    /\ IF req.sink = "failing"
          THEN /\ hpanic' = "value"
               /\ Exit(Innermost, "panicked")
               /\ UNCHANGED hip
          ELSE /\ hip' = hip + 1
               /\ UNCHANGED <<hpanic, fpc, hdepth>>
    /\ UNCHANGED <<req, outLog, hinvoked>>

\* The innermost handler ends: it returns, or panics.
H_end ==
    /\ hdepth = Innermost
    /\ fpc[Innermost] = "H_run"
    /\ hip > Len(req.ops)
    /\ IF req.end = "return"
          THEN UNCHANGED hpanic /\ Exit(Innermost, "returned")
          ELSE /\ hpanic' = (IF req.end = "panic" THEN "value" ELSE "nil")
               /\ Exit(Innermost, "panicked")
    /\ UNCHANGED <<req, hst, hsink, outLog, hinvoked, hip>>

\* A chain built for one of the requests in R, not called yet.
HInit(R) ==
    /\ req \in R
    /\ fpc = [i \in 1..Innermost |-> "notcalled"]
    /\ hdepth = 0
    /\ hpanic = "none"
    /\ hst = [i \in 1..Len(req.chain) |-> 0]
    /\ hsink = <<>>
    /\ outLog = <<>>
    /\ hinvoked = [i \in 1..Innermost |-> 0]
    /\ hip = 1

\* The request of TestLoggingMiddleware.
TestRequest ==
    [chain |-> <<"L">>, ops |-> <<[op |-> "WriteHeader", code |-> StatusOK, data |-> <<>>]>>,
     end |-> "return", sink |-> "recorder", path |-> "/about/", recoverNil |-> FALSE]

HNext ==
    \/ HServe /\ UNCHANGED <<wvars, rvars>>
    \/ \E i \in 1..Len(req.chain) : L_58(i) /\ UNCHANGED <<wvars, rvars>>
    \/ \E i \in 1..Len(req.chain) : L_60(i) /\ UNCHANGED <<wvars, rvars>>
    \/ \E i \in 1..Len(req.chain) : L_62(i) /\ UNCHANGED <<wvars, rvars>>
    \/ \E i \in 1..Len(req.chain) : L_unwind(i) /\ UNCHANGED <<wvars, rvars>>
    \/ \E i \in 1..Len(req.chain) : P_73(i) /\ UNCHANGED <<wvars, rvars>>
    \/ \E i \in 1..Len(req.chain) : P_78(i) /\ UNCHANGED <<wvars, rvars>>
    \/ \E i \in 1..Len(req.chain) : P_74(i) /\ UNCHANGED <<wvars, rvars>>
    \/ \E i \in 1..Len(req.chain) : P_75(i) /\ UNCHANGED <<wvars, rvars>>
    \/ H_op /\ UNCHANGED <<wvars, rvars>>
    \/ H_end /\ UNCHANGED <<wvars, rvars>>

\* The program at start, with one chain built for the request of
\* TestLoggingMiddleware.
Init == WInit /\ RInit /\ HInit({TestRequest})

\* One statusResponseWriter and its caller.
SpecW == Init /\ [][WNext]_vars

\* The registry, init() and the goroutines calling Register, Get and MustGet.
SpecR == Init /\ [][RNext]_vars

\* The start of one request, for every chain, inner handler and sink.
InitH == WInit /\ RInit /\ HInit(Requests)

\* One request served through a chain of middleware.
SpecH == InitH /\ [][HNext]_vars

\* The steps of goroutine p that take registryLock.
Acquire(p) == Register_100(p) \/ Register_100w(p) \/ Get_113(p) \/ MustGet_121(p)

\* The other steps of goroutine p inside a call.
Proceed(p) ==
    \/ Register_97(p) \/ Register_103(p) \/ Register_107(p) \/ Register_101(p)
    \/ Get_116(p) \/ Get_114(p)
    \/ MustGet_124(p) \/ MustGet_122(p)

\* SpecR under the scheduling the runtime gives: a goroutine that can run
\* does run, and a goroutine waiting for registryLock gets it when it is
\* free again and again (sync.RWMutex starves neither readers nor writers).
SpecRFair ==
    /\ Init
    /\ [][RNext]_vars
    /\ \A p \in Procs :
          /\ WF_vars(Proceed(p) /\ UNCHANGED <<wvars, hvars>>)
          /\ SF_vars(Acquire(p) /\ UNCHANGED <<wvars, hvars>>)

\* ------------------------------------------- statusResponseWriter: claims

\* The positions of calls at which the caller invoked op.
CallsOf(op) == {i \in 1..Len(calls) : calls[i].op = op}

\* The caller made n >= 1 WriteHeader calls and then one GetStatus call,
\* which has returned.
HeadersThenGetStatus ==
    /\ wpc = "idle"
    /\ Len(calls) >= 2
    /\ CurCall.op = "GetStatus"
    /\ \A i \in 1..(Len(calls) - 1) : calls[i].op = "WriteHeader"

\* The first non-zero code among the WriteHeader calls, 200 when there is none.
FirstNonZeroCode ==
    LET nz == {i \in CallsOf("WriteHeader") : calls[i].code # 0}
    IN  IF nz = {} THEN StatusOK
        ELSE calls[CHOOSE i \in nz : \A j \in nz : i <= j].code

\* C1 as stated: after any sequence of one or more WriteHeader calls on a
\* fresh writer, GetStatus returns the first code of the sequence.
C1_FirstCodeAnyCodes ==
    HeadersThenGetStatus => wret.code = calls[1].code

\* C1 as amended: after any sequence of one or more WriteHeader calls on a
\* fresh writer, GetStatus returns the first non-zero code of the sequence
\* (200 when every code is 0); so it returns the first code whenever the
\* first code is not 0, whatever the later codes are.
C1_FirstNonZeroCode ==
    HeadersThenGetStatus =>
        /\ wret.code = FirstNonZeroCode
        /\ (calls[1].code # 0 => wret.code = calls[1].code)

\* WriteHeader(403), WriteHeader(409), GetStatus() has returned 403.
C1_Witness ==
    /\ HeadersThenGetStatus
    /\ Len(calls) = 3
    /\ calls[1].code = 403
    /\ calls[2].code = 409
    /\ wret.code = 403

\* The recorded status after the calls made so far, told from the first
\* call that can record one: a Write, or a WriteHeader with a non-zero code.
C2_Recorded ==
    wpc = "idle" =>
        \A i \in 1..Len(calls) :
            (\A j \in 1..(i - 1) :
                 /\ calls[j].op # "Write"
                 /\ calls[j].op = "WriteHeader" => calls[j].code = 0)
            => /\ calls[i].op = "Write" => status = StatusOK
               /\ (calls[i].op = "WriteHeader" /\ calls[i].code # 0)
                      => status = calls[i].code

\* C2: once the status field is non-zero no step changes it; a WriteHeader
\* after a Write leaves it at 200 and a Write after WriteHeader(c) at c.
C2_StatusNeverOverwritten ==
    /\ [][status # 0 => status' = status]_vars
    /\ []C2_Recorded

\* WriteHeader(403), Write, WriteHeader(409): the status is still 403.
C2_Witness ==
    /\ wpc = "idle"
    /\ Len(calls) = 3
    /\ calls[1].op = "WriteHeader" /\ calls[1].code = 403
    /\ calls[2].op = "Write"
    /\ calls[3].op = "WriteHeader" /\ calls[3].code = 409
    /\ status = 403

\* The data of the Write calls made so far, concatenated in call order.
RECURSIVE WrittenUpTo(_)
WrittenUpTo(n) ==
    IF n = 0 THEN <<>>
    ELSE IF calls[n].op = "Write" THEN WrittenUpTo(n - 1) \o calls[n].data
         ELSE WrittenUpTo(n - 1)

\* C3: a Write made before any WriteHeader records 200 before the sink
\* receives the write; afterwards GetStatus returns 200 and the sink's body
\* holds exactly the data written.
C3_WriteRecordsOK ==
    /\ (wpc = "Write_27" /\ CallsOf("WriteHeader") = {})
           => /\ status = StatusOK
              /\ SinkBody(sinkCalls) = WrittenUpTo(Len(calls) - 1)
    /\ (wpc = "idle" /\ CallsOf("WriteHeader") = {} /\ CallsOf("Write") # {})
           => /\ status = StatusOK
              /\ CurCall.op = "GetStatus" => wret.code = StatusOK
              /\ SinkBody(sinkCalls) = WrittenUpTo(Len(calls))
    /\ (wpc = "idle" /\ Len(calls) >= 1 /\ calls[1].op = "Write"
            /\ CallsOf("Write") = {1})
           => SinkBody(sinkCalls) = calls[1].data

\* Write("Hi") on a fresh writer, then GetStatus() has returned 200.
C3_Witness ==
    /\ wpc = "idle"
    /\ calls = <<[op |-> "Write", data |-> <<72, 105>>], [op |-> "GetStatus"]>>
    /\ wret.code = StatusOK
    /\ SinkBody(sinkCalls) = <<72, 105>>

\* The step is a GetStatus call.
GetStatusStep ==
    /\ Len(calls') = Len(calls) + 1
    /\ calls'[Len(calls')].op = "GetStatus"

\* After GetStatus calls alone, a WriteHeader is still the first write.
C4_StillFirstWrite ==
    /\ (wpc = "idle" /\ calls # <<>> /\ CallsOf("GetStatus") = 1..Len(calls))
           => status = 0 /\ wret.code = StatusOK
    /\ (wpc = "idle" /\ Len(calls) >= 2 /\ CurCall.op = "WriteHeader"
            /\ CallsOf("GetStatus") = 1..(Len(calls) - 1))
           => status = CurCall.code

\* C4: GetStatus returns the recorded status, or 200 when the field is 0,
\* and changes neither the field nor the sink; on a fresh writer it returns
\* 200 and a following WriteHeader(c) still records c.
C4_GetStatusPure ==
    /\ [][GetStatusStep =>
              /\ status' = status
              /\ sinkCalls' = sinkCalls
              /\ wret'.code = (IF status = 0 THEN 200 ELSE status)]_vars
    /\ []C4_StillFirstWrite

\* GetStatus() returned on a fresh writer, then WriteHeader(403) recorded 403.
C4_Witness ==
    /\ wpc = "idle"
    /\ calls = <<[op |-> "GetStatus"], [op |-> "WriteHeader", code |-> 403]>>
    /\ status = 403

\* ------------------------------------------------------- registry: claims

\* Goroutine p's last call was op and it returned normally.
Returned(p, op) ==
    /\ pc[p] = "idle"
    /\ arg[p].op = op
    /\ ret[p].out = "return"

\* Goroutine p's last call was op and it ended in a panic.
Panicked(p, op) ==
    /\ pc[p] = "idle"
    /\ arg[p].op = op
    /\ ret[p].out = "panic"

\* The step moves goroutine p from position from to position to.
Moves(p, from, to) == pc[p] = from /\ pc'[p] = to

\* Goroutine p's last call was a Register of a non-nil constructor that
\* succeeded.
Registered(p) == Returned(p, "Register") /\ arg[p].f # Nil

C5_Step ==
    /\ \A k \in DOMAIN registry :
          k \in DOMAIN registry' /\ registry'[k] = registry[k]
    /\ \A p \in Procs :
          Moves(p, "Register_107", "Register_101")
              => /\ arg[p].key \in DOMAIN registry'
                 /\ registry'[arg[p].key] = arg[p].f
    /\ \A q \in Procs :
          Moves(q, "Get_116", "Get_114")
              => \A p \in Procs :
                    (Registered(p) /\ arg[p].key = arg[q].key)
                        => local'[q].f = arg[p].f /\ local'[q].ok
    /\ \A q \in Procs :
          Moves(q, "Get_114", "idle")
              => ret'[q] = [out |-> "return", f |-> local[q].f, ok |-> local[q].ok]

C5_Kept ==
    \A p \in Procs :
        Registered(p)
            => /\ arg[p].key \in DOMAIN registry
               /\ registry[arg[p].key] = arg[p].f

\* C5: after Register(k, f) succeeded, with f non-nil, every Get(k) that
\* reads the registry afterwards returns (f, true), whatever calls come in
\* between: no step overwrites or removes an entry.
C5_RegisteredStays ==
    /\ [][C5_Step]_vars
    /\ []C5_Kept

\* One goroutine registered f under "nillHandler", another got (f, true).
C5_Witness ==
    \E p, q \in Procs :
        /\ p # q
        /\ Registered(p)
        /\ arg[p].key = "nillHandler" /\ arg[p].f = "f"
        /\ Returned(q, "Get")
        /\ arg[q].key = "nillHandler"
        /\ ret[q].f = "f" /\ ret[q].ok

C6_Step ==
    /\ \A p \in Procs :
          (pc[p] = "Register_103" /\ pc'[p] # "Register_103"
               /\ arg[p].key \in DOMAIN registry)
              => /\ pc'[p] = "Register_101"
                 /\ local'[p].panicking
                 /\ registry' = registry
    /\ \A p \in Procs :
          Moves(p, "Register_101", "idle")
              => /\ registry' = registry
                 /\ ret'[p].out = (IF local[p].panicking THEN "panic" ELSE "return")

C6_NoStoreOnDuplicate ==
    \A p \in Procs :
        /\ pc[p] = "Register_107" => arg[p].key \notin DOMAIN registry
        /\ (pc[p] = "Register_101" /\ local[p].panicking)
               => arg[p].key \in DOMAIN registry
        /\ Panicked(p, "Register") => arg[p].key \in DOMAIN registry

\* C6: Register(k, f) with a non-nil f on a registered key panics, whether
\* or not f is the constructor stored under k, and stores nothing: the
\* registry is the same after the call's steps as before them.
C6_DuplicatePanics ==
    /\ [][C6_Step]_vars
    /\ []C6_NoStoreOnDuplicate

\* Register("nillHandler", f) panicked while f itself is stored there.
C6_Witness ==
    \E p \in Procs :
        /\ Panicked(p, "Register")
        /\ arg[p].key = "nillHandler" /\ arg[p].f = "f"
        /\ registry["nillHandler"] = "f"

C7_Step ==
    /\ \A p \in Procs :
          (pc[p] = "Register_97" /\ pc'[p] # "Register_97" /\ arg[p].f = Nil)
              => /\ pc'[p] = "idle"
                 /\ ret'[p].out = "return"
                 /\ registry' = registry
                 /\ lock' = lock
    /\ \A q \in Procs :
          Moves(q, "Get_116", "Get_114")
              => local'[q].ok = (arg[q].key \in DOMAIN registry)

C7_NilNeverProceeds ==
    /\ \A p \in Procs :
          (arg[p].op = "Register" /\ arg[p].f = Nil)
              => /\ pc[p] \in {"Register_97", "idle"}
                 /\ ret[p].out # "panic"
    /\ \A k \in DOMAIN registry : registry[k] # Nil

\* C7: Register(k, nil) returns at once for every key and registry state,
\* registered key or not, repeated or not; it takes no lock, never panics
\* and stores nothing, so a key registered only with nil is not found.
C7_NilIsNoOp ==
    /\ [][C7_Step]_vars
    /\ []C7_NilNeverProceeds

\* Register("", nil) returned, and a Get("") returned found = false.
C7_Witness ==
    \E p, q \in Procs :
        /\ Returned(p, "Register")
        /\ arg[p].key = "" /\ arg[p].f = Nil
        /\ Returned(q, "Get")
        /\ arg[q].key = ""
        /\ ret[q].f = Nil /\ ~ret[q].ok
        /\ "" \notin DOMAIN registry

\* What Get's steps do besides the lookup: they leave the registry alone,
\* never panic and return the pair that line 116 read.
C8_GetFrame ==
    \A q \in Procs :
        /\ (arg[q].op = "Get" /\ pc[q] # pc'[q]) => registry' = registry
        /\ Moves(q, "Get_114", "idle")
              => ret'[q] = [out |-> "return", f |-> local[q].f, ok |-> local[q].ok]
        /\ (arg'[q].op = "Get") => (~local'[q].panicking /\ ret'[q].out # "panic")

\* C8 as stated: Get(k) returns (nil, false), without failing and without
\* changing the registry, for every unknown key and for the empty string.
C8_EmptyKeyAbsent ==
    [][/\ C8_GetFrame
       /\ \A q \in Procs :
             (Moves(q, "Get_116", "Get_114")
                  /\ (arg[q].key \notin DOMAIN registry \/ arg[q].key = ""))
                 => local'[q].f = Nil /\ ~local'[q].ok]_vars

\* C8 as amended: Get(k) returns (nil, false), without failing and without
\* changing the registry, for every key that is not in the registry, the
\* empty string included as long as nothing was registered under it.
C8_UnknownKeyAbsent ==
    [][/\ C8_GetFrame
       /\ \A q \in Procs :
             (Moves(q, "Get_116", "Get_114") /\ arg[q].key \notin DOMAIN registry)
                 => local'[q].f = Nil /\ ~local'[q].ok]_vars

\* Get("") returned (nil, false) and the empty key is not registered, while
\* the other goroutine's Get("nillHandler") missed as well.
C8_Witness ==
    \E p, q \in Procs :
        /\ p # q
        /\ Returned(q, "Get")
        /\ arg[q].key = ""
        /\ ret[q].f = Nil /\ ~ret[q].ok
        /\ Returned(p, "Get")
        /\ arg[p].key = "nillHandler"
        /\ ~ret[p].ok
        /\ DOMAIN registry = {BootKeys[i] : i \in 1..3}

C9_Step ==
    \A p \in Procs :
        /\ Moves(p, "MustGet_124", "MustGet_122")
              => /\ local'[p].panicking = (arg[p].key \notin DOMAIN registry)
                 /\ arg[p].key \in DOMAIN registry
                        => local'[p].f = Lookup(registry, arg[p].key).f
        /\ Moves(p, "MustGet_122", "idle")
              => /\ ret'[p].out = (IF local[p].panicking THEN "panic" ELSE "return")
                 /\ ~local[p].panicking => ret'[p].f = local[p].f
        /\ (arg[p].op = "MustGet" /\ pc[p] # pc'[p]) => registry' = registry

\* C9: MustGet(k) panics exactly when the key is absent, that is when Get(k)
\* would return found = false, and otherwise returns the constructor Get(k)
\* returns; no step of MustGet changes the registry.
C9_MustGetAsGet ==
    [][C9_Step]_vars

\* MustGet and Get of the same key both returned the constructor o that a
\* caller registered under it.
C9_Witness ==
    \E p, q \in Procs :
        /\ Returned(p, "MustGet")
        /\ Returned(q, "Get")
        /\ arg[p].key = arg[q].key
        /\ ret[q].ok
        /\ ret[p].f = ret[q].f
        /\ ret[p].f = "o"

\* C10: every key present maps to a non-nil constructor, so a Get that
\* returns found = true returns a non-nil constructor.
C10_NoNilStored ==
    /\ \A k \in DOMAIN registry : registry[k] # Nil
    /\ \A q \in Procs :
          (pc[q] = "Get_114" /\ local[q].ok) => local[q].f # Nil
    /\ \A q \in Procs :
          (Returned(q, "Get") /\ ret[q].ok) => ret[q].f # Nil

\* After a Register with nil, a key registered by a caller is found with
\* its non-nil constructor.
C10_Witness ==
    \E p, q \in Procs :
        /\ Returned(p, "Register")
        /\ arg[p].f = Nil
        /\ Returned(q, "Get")
        /\ arg[q].key = arg[p].key
        /\ ret[q].ok
        /\ ret[q].f = "f"

\* The Write and WriteHeader calls among the first n calls made on the
\* wrapper, in call order, as the sink should see them.
RECURSIVE ForwardedUpTo(_)
ForwardedUpTo(n) ==
    IF n = 0 THEN <<>>
    ELSE IF calls[n].op \in {"Write", "WriteHeader"}
            THEN Append(ForwardedUpTo(n - 1), calls[n])
            ELSE ForwardedUpTo(n - 1)

\* The calls the sink received, without what the sink returned.
SinkReceived ==
    [i \in 1..Len(sinkCalls) |->
        IF sinkCalls[i].op = "Write"
           THEN [op |-> "Write", data |-> sinkCalls[i].data]
           ELSE sinkCalls[i]]

\* C17: the wrapped sink receives exactly the Write and WriteHeader calls
\* made on the wrapper, same arguments, same order, a repeated WriteHeader
\* included, and Write returns what the sink's Write returned.
C17_TransparentProxy ==
    /\ wpc = "idle" => SinkReceived = ForwardedUpTo(Len(calls))
    /\ wpc # "idle" => SinkReceived = ForwardedUpTo(Len(calls) - 1)
    /\ (wpc = "idle" /\ calls # <<>> /\ CurCall.op = "Write")
           => wret = sinkCalls[Len(sinkCalls)].res

\* WriteHeader(403), WriteHeader(409), Write("Hi"): the sink has all three.
C17_Witness ==
    /\ wpc = "idle"
    /\ Len(calls) = 3
    /\ SinkReceived = <<[op |-> "WriteHeader", code |-> 403],
                        [op |-> "WriteHeader", code |-> 409],
                        [op |-> "Write", data |-> <<72, 105>>]>>
    /\ wret = [kind |-> "write", n |-> 2, err |-> "nil"]

\* C13: when init() has made its three Register calls, and before any other
\* call, the registry holds exactly the three bootstrap keys, each with its
\* non-nil constructor, and none of the three calls panicked.
C13_Bootstrap ==
    /\ ((initpc = "init_91" /\ pc[1] = "idle") \/ initpc = "done")
           => \A i \in 1..3 :
                 /\ BootKeys[i] \in DOMAIN registry
                 /\ registry[BootKeys[i]] = BootCtors[i]
                 /\ registry[BootKeys[i]] # Nil
    /\ (initpc = "init_91" /\ pc[1] = "idle")
           => /\ DOMAIN registry =
                    {"middleware.Panic", "middleware.LoggingStdOut", "middleware.LoggingStdErr"}
              /\ Returned(1, "Register")
    /\ initpc # "done" => (ret[1].out # "panic" /\ ~local[1].panicking)

\* init() has returned and no goroutine has called anything yet.
C13_Witness ==
    /\ initpc = "done"
    /\ \A p \in Procs : pc[p] = "idle"
    /\ \A p \in Procs \ {1} : arg[p] = NoArg
    /\ arg[1].key = "middleware.LoggingStdErr"
    /\ Cardinality(DOMAIN registry) = 3

\* Goroutine p's Register has stored, or is about to store, its constructor.
Won(p) ==
    /\ arg[p].op = "Register"
    /\ arg[p].f # Nil
    /\ \/ pc[p] = "Register_107"
       \/ pc[p] = "Register_101" /\ ~local[p].panicking
       \/ pc[p] = "idle" /\ ret[p].out = "return"

C14_Step ==
    /\ \A p \in Procs :
          Moves(p, "Register_107", "Register_101")
              => /\ arg[p].key \notin DOMAIN registry
                 /\ registry' = Store(registry, arg[p].key, arg[p].f)
    /\ \A p \in Procs :
          Moves(p, "Register_103", "Register_101")
              => arg[p].key \in DOMAIN registry
    /\ \A k \in DOMAIN registry :
          k \in DOMAIN registry' /\ registry'[k] = registry[k]
    /\ \A q \in Procs :
          Moves(q, "Get_116", "Get_114")
              => /\ \/ /\ arg[q].key \notin DOMAIN registry
                       /\ local'[q].f = Nil /\ ~local'[q].ok
                    \/ /\ arg[q].key \in DOMAIN registry
                       /\ local'[q].f = registry[arg[q].key] /\ local'[q].ok
                 /\ \A p \in Procs :
                       (Returned(p, "Get") /\ arg[p].key = arg[q].key /\ ret[p].ok)
                           => local'[q].ok /\ local'[q].f = ret[p].f

C14_OneWinner ==
    \A p, q \in Procs :
        /\ (p # q /\ arg[p].key = arg[q].key) => ~(Won(p) /\ Won(q))
        /\ (Won(p) /\ pc[p] # "Register_107")
               => /\ arg[p].key \in DOMAIN registry
                  /\ registry[arg[p].key] = arg[p].f

\* C14: of the Register calls racing for one fresh key exactly one stores
\* its constructor: a call stores only into an absent key, a call panics
\* only when a winner's entry is there, and the entry is never replaced; a
\* Get returns (nil, false) or (the winner's constructor, true), and never
\* misses after a Get of the key has found it.
C14_RegisterRace ==
    /\ [][C14_Step]_vars
    /\ []C14_OneWinner

\* Two Register calls for "nillHandler" are in flight: one has stored f and
\* still holds the lock, the other, with o, waits for the lock.
C14_Witness ==
    \E p, q \in Procs :
        /\ pc[p] = "Register_101" /\ ~local[p].panicking
        /\ arg[p].key = "nillHandler" /\ arg[p].f = "f"
        /\ pc[q] = "Register_100"
        /\ arg[q].key = "nillHandler" /\ arg[q].f = "o"

\* Goroutine p is between Lock and Unlock.
WriterCS(p) == pc[p] \in {"Register_103", "Register_107", "Register_101"}

\* Goroutine p is between RLock and RUnlock.
ReaderCS(p) == pc[p] \in {"Get_116", "Get_114", "MustGet_124", "MustGet_122"}

\* No goroutine holds or waits for the writer side of the lock.
NoWriter ==
    \A p \in Procs :
        pc[p] \notin {"Register_100w", "Register_103", "Register_107", "Register_101"}

\* C15: a Register inside its critical section excludes every other
\* Register, Get and MustGet from theirs, while a Get or MustGet waiting
\* for the lock is let in whenever only readers hold it.
C15_ReadersWriterExclusion ==
    /\ \A p, q \in Procs :
          (p # q /\ WriterCS(p)) => (~WriterCS(q) /\ ~ReaderCS(q))
    /\ \A q \in Procs :
          (pc[q] = "Get_113" /\ NoWriter) => ENABLED Get_113(q)
    /\ \A q \in Procs :
          (pc[q] = "MustGet_121" /\ NoWriter) => ENABLED MustGet_121(q)

\* A Get and a MustGet are inside their critical sections at the same time.
C15_Witness ==
    \E p, q \in Procs :
        /\ p # q
        /\ pc[p] = "Get_116"
        /\ pc[q] = "MustGet_124"
        /\ lock.readers = 2

\* The lock is held exactly by the goroutines between its acquisition and
\* its release, and while a call is in flight some call can take a step.
C16_LockAccounting ==
    /\ lock.readers = Cardinality({p \in Procs : ReaderCS(p)})
    /\ \A p \in Procs :
          lock.w = p <=> (pc[p] = "Register_100w" \/ WriterCS(p))
    /\ lock.w \in Procs \cup {0}
    /\ (\A p \in Procs : pc[p] = "idle") => lock = [w |-> 0, readers |-> 0]
    /\ (\E p \in Procs : pc[p] # "idle")
           => ENABLED (\E p \in Procs : Acquire(p) \/ Proceed(p))

\* C16: every exit path releases the lock, the two panics included, so no
\* state is a deadlock on the lock and, under fair scheduling, every call
\* that was invoked returns or panics.
C16_LockReleased ==
    /\ []C16_LockAccounting
    /\ \A p \in Procs : (pc[p] # "idle") ~> (pc[p] = "idle")

\* A Register and a MustGet have both panicked and the lock is free.
C16_Witness ==
    \E p, q \in Procs :
        /\ Panicked(p, "Register")
        /\ Panicked(q, "MustGet")
        /\ lock = [w |-> 0, readers |-> 0]

\* ----------------------------------------------------- middleware: claims

\* The layers of the chain that are of the given kind.
Layers(kind) == {i \in 1..Len(req.chain) : req.chain[i] = kind}

\* Frame i has ended.
Completed(i) == fpc[i] \in {"returned", "panicked"}

\* The calls frame i made on the sink, in order.
SinkCallsBy(i) == SelectSeq(hsink, LAMBDA e : e.by = i)

\* The calls the frames inside frame i made on their writer, in order: they
\* are the calls that went through the writer frame i handed down.
SinkCallsInside(i) == SelectSeq(hsink, LAMBDA e : e.by > i)

\* The lines logging layer i wrote.
LinesBy(i) == SelectSeq(outLog, LAMBDA e : e.by = i)

\* The WriteHeader(500) of panic layer i.
ErrorStatusBy(i) ==
    [op |-> "WriteHeader", code |-> 500, data |-> <<>>, by |-> i]

\* C11: the handler of NewPanicMiddleware invokes the inner handler exactly
\* once; when the inner handler panics the call returns normally and
\* WriteHeader(500) is the one call it makes on the sink, after the inner
\* handler's calls; when the inner handler returns it makes no call on the
\* sink.  Stated for a sink that does not fail.
C11_PanicBecomes500 ==
    \A i \in Layers("P") :
        (req.sink = "recorder" /\ Completed(i))
            => /\ hinvoked[i + 1] = 1
               /\ fpc[i] = "returned"
               /\ fpc[i + 1] = "panicked"
                     => /\ SinkCallsBy(i) = <<ErrorStatusBy(i)>>
                        /\ hsink[Len(hsink)] = ErrorStatusBy(i)
               /\ fpc[i + 1] = "returned" => SinkCallsBy(i) = <<>>

\* The status of the first call among cs, 200 when there is none.
FirstStatus(cs) == IF cs = <<>> THEN StatusOK ELSE StatusOf(cs[1])

\* The status of the first call among cs whose status is not 0, 200 when
\* there is none.
FirstNonZeroStatus(cs) ==
    LET nz == {n \in 1..Len(cs) : StatusOf(cs[n]) # 0}
    IN  IF nz = {} THEN StatusOK
        ELSE StatusOf(cs[CHOOSE n \in nz : \A m \in nz : n <= m])

\* What C12 says of logging layer i but for the status logged: the inner
\* handler is invoked once, through a fresh wrapper, and when it has
\* returned exactly one line is written, after its return, with the
\* request's path.
C12_OneLine(i) ==
    /\ fpc[i] = "L_60" => hst[i] = 0
    /\ LinesBy(i) # <<>> => fpc[i + 1] = "returned"
    /\ (fpc[i + 1] = "returned" /\ Completed(i))
           => /\ hinvoked[i + 1] = 1
              /\ fpc[i] = "returned"
              /\ Len(LinesBy(i)) = 1
              /\ LinesBy(i)[1].path = req.path

\* C12 as stated: the status in the line is the first status the inner
\* handler set, or 200 if it set none.
C12_LogsFirstStatus ==
    \A i \in Layers("L") :
        /\ C12_OneLine(i)
        /\ (fpc[i + 1] = "returned" /\ Completed(i))
               => LinesBy(i)[1].code = FirstStatus(SinkCallsInside(i))

\* C12 as amended: the status in the line is the wrapper's captured status:
\* the first non-zero status the inner handler set, or 200 if it set none
\* or only 0.
C12_LogsCapturedStatus ==
    \A i \in Layers("L") :
        /\ C12_OneLine(i)
        /\ (fpc[i + 1] = "returned" /\ Completed(i))
               => /\ LinesBy(i)[1].code = FirstNonZeroStatus(SinkCallsInside(i))
                  /\ LinesBy(i)[1].code = GetStatus(hst[i])

\* The request of TestLoggingMiddleware with a second WriteHeader: the
\* handler set 403 and then 200, and the one line says 403 and /about/.
C12_Witness ==
    /\ req.chain = <<"L">>
    /\ Len(req.ops) = 2
    /\ req.ops[1].op = "WriteHeader" /\ req.ops[1].code = 403
    /\ req.ops[2].op = "WriteHeader" /\ req.ops[2].code = StatusOK
    /\ fpc = <<"returned", "returned">>
    /\ outLog = <<[by |-> 1, code |-> 403, path |-> "/about/"]>>

\* C18: when the inner handler of a logging layer panics, the layer ends
\* panicking with that panic still in flight for whatever wraps it, and it
\* has written no line.
C18_LoggingLetsPanicThrough ==
    \A i \in Layers("L") :
        /\ (fpc[i + 1] = "panicked" /\ Completed(i))
               => /\ fpc[i] = "panicked"
                  /\ LinesBy(i) = <<>>
        /\ (fpc[i] = "panicked" /\ hdepth = i - 1
                /\ (i = 1 \/ fpc[i - 1] = "P_78r"))
               => hpanic # "none"

\* A logging handler called directly: its inner handler panicked, the call
\* ended in that panic and nothing was logged.
C18_Witness ==
    /\ req.chain = <<"L">>
    /\ req.end = "panic"
    /\ req.sink = "recorder"
    /\ fpc = <<"panicked", "panicked">>
    /\ hpanic = "value"
    /\ outLog = <<>>

\* C19: with a handler that panics before setting any status, the chain
\* NewLoggingMiddleware(out, NewPanicMiddleware(h)) returns normally, the
\* sink receives WriteHeader(500) and one line with status 500 is logged;
\* the chain NewPanicMiddleware(NewLoggingMiddleware(out, h)) returns
\* normally, the sink receives WriteHeader(500) and no line is logged.
\* Stated for a sink that does not fail.
C19_Composition ==
    (/\ req.sink = "recorder"
     /\ req.ops = <<>>
     /\ req.end \in {"panic", "panicNil"}
     /\ Completed(1))
        => /\ req.chain = <<"L", "P">>
                 => /\ fpc[1] = "returned"
                    /\ hsink = <<ErrorStatusBy(2)>>
                    /\ outLog = <<[by |-> 1, code |-> 500, path |-> req.path]>>
           /\ req.chain = <<"P", "L">>
                 => /\ fpc[1] = "returned"
                    /\ hsink = <<ErrorStatusBy(1)>>
                    /\ outLog = <<>>

\* C20: a call of the handler of NewPanicMiddleware returns normally for
\* every inner handler and every sink, also when the inner handler panics
\* and the sink's WriteHeader(500) panics in turn.
C20_GuardNeverFails ==
    \A i \in Layers("P") : Completed(i) => fpc[i] = "returned"

====
